---- MODULE Spec2Model ----
(***************************************************************************)
(* Model of src/app.py: the STAC browser-URL normaliser, the recursive     *)
(* crawler crawl_stac and the TIFF-URL derivation generate_tiff_url.       *)
(*                                                                         *)
(* A Python str is a sequence of one-character strings.  The remote        *)
(* server is an input: the response to a GET is drawn when the GET is      *)
(* issued and stays the same for later GETs of the same URL.               *)
(***************************************************************************)
EXTENDS Integers, Sequences, FiniteSets, TLC

\* ------------------------------------------------------------------ bounds
\* longest "links" array of a document
MaxLinks == 2
\* links of all documents read in one run, together
MaxTotalLinks == 3

\* ------------------------------------------------------- string primitives
\* A str is a sequence of characters.  The str methods and the urllib
\* functions are functions on Str: an argument is a value when a body reads it.
Digits == {"0", "1", "2", "3", "4", "5", "6", "7", "8", "9"}
LowerSeq == <<"a", "b", "c", "d", "e", "f", "g", "h", "i", "j", "k", "l", "m",
              "n", "o", "p", "q", "r", "s", "t", "u", "v", "w", "x", "y", "z">>
UpperSeq == <<"A", "B", "C", "D", "E", "F", "G", "H", "I", "J", "K", "L", "M",
              "N", "O", "P", "Q", "R", "S", "T", "U", "V", "W", "X", "Y", "Z">>
LowerLetters == {LowerSeq[k] : k \in 1..26}
UpperLetters == {UpperSeq[k] : k \in 1..26}
Letters == LowerLetters \cup UpperLetters
Whitespace == {" "}
Punctuation == {":", "/", ".", "#", "%", "?", "=", "&", "-", "+", "_", " "}
Char == Letters \cup Digits \cup Punctuation
Str == Seq(Char)

\* Python's None, unequal to every str
None == <<"None">>

\* bool(x) of a str or None
Truthy(x) == x # None /\ x # <<>>

SetMax(S) == CHOOSE x \in S : \A y \in S : y <= x
SetMin(S) == CHOOSE x \in S : \A y \in S : x <= y

\* s.startswith(p)
StartsWith[s \in Str, p \in Str] == Len(s) >= Len(p) /\ SubSeq(s, 1, Len(p)) = p

\* s.endswith(p)
EndsWith[s \in Str, p \in Str] ==
    Len(s) >= Len(p) /\ SubSeq(s, Len(s) - Len(p) + 1, Len(s)) = p

\* the positions at which sub occurs in s
Occurrences[s \in Str, sub \in Str] ==
    {i \in 1..(Len(s) - Len(sub) + 1) : SubSeq(s, i, i + Len(sub) - 1) = sub}

\* sub in s
Contains[s \in Str, sub \in Str] == Occurrences[s, sub] # {}

\* s.split(sep)[-1]: the text after the last occurrence of sep
SplitLast[s \in Str, sep \in Str] ==
    LET at == Occurrences[s, sep]
    IN  IF at # {} THEN SubSeq(s, SetMax(at) + Len(sep), Len(s)) ELSE s

\* s.split(sep)[0]: the text before the first occurrence of sep
SplitFirst[s \in Str, sep \in Str] ==
    LET at == Occurrences[s, sep]
    IN  IF at # {} THEN SubSeq(s, 1, SetMin(at) - 1) ELSE s

\* s.strip()
LStrip[s \in Str] == IF s # <<>> /\ Head(s) \in Whitespace THEN LStrip[Tail(s)] ELSE s
RStrip[s \in Str] ==
    IF s # <<>> /\ s[Len(s)] \in Whitespace THEN RStrip[SubSeq(s, 1, Len(s) - 1)] ELSE s
Strip[s \in Str] == RStrip[LStrip[s]]

\* ord(c) for the characters of the alphabet
Ord[c \in Char] ==
    IF c \in LowerLetters THEN 96 + (CHOOSE j \in 1..26 : LowerSeq[j] = c)
    ELSE IF c \in UpperLetters THEN 64 + (CHOOSE j \in 1..26 : UpperSeq[j] = c)
    ELSE CASE c = "0" -> 48 [] c = "1" -> 49 [] c = "2" -> 50 [] c = "3" -> 51
           [] c = "4" -> 52 [] c = "5" -> 53 [] c = "6" -> 54 [] c = "7" -> 55
           [] c = "8" -> 56 [] c = "9" -> 57
           [] c = " " -> 32 [] c = "#" -> 35 [] c = "%" -> 37 [] c = "&" -> 38
           [] c = "+" -> 43 [] c = "-" -> 45 [] c = "." -> 46 [] c = "/" -> 47
           [] c = ":" -> 58 [] c = "=" -> 61 [] c = "?" -> 63 [] c = "_" -> 95

\* chr(n); a code outside the alphabet has no character in the model
Chr(n) == CHOOSE c \in Char : Ord[c] = n

\* the hexadecimal digits, in either case, and their values
HexDigits == Digits \cup {"a", "b", "c", "d", "e", "f", "A", "B", "C", "D", "E", "F"}
HexValue(c) ==
    IF c \in Digits THEN Ord[c] - 48
    ELSE IF c \in UpperLetters THEN Ord[c] - 55
    ELSE Ord[c] - 87

\* urllib.parse.unquote: every %XX, XX two hexadecimal digits, becomes the
\* character with that code; a "%" not followed by two such digits stays
unquote[s \in Str] ==
    IF s = <<>> THEN <<>>
    ELSE IF Head(s) = "%" /\ Len(s) >= 3 /\ s[2] \in HexDigits /\ s[3] \in HexDigits
         THEN <<Chr(16 * HexValue(s[2]) + HexValue(s[3]))>> \o unquote[SubSeq(s, 4, Len(s))]
         ELSE <<Head(s)>> \o unquote[Tail(s)]

\* s.lower()
LowerStr[s \in Str] ==
    [k \in 1..Len(s) |->
        IF s[k] \in UpperLetters
        THEN LowerSeq[CHOOSE j \in 1..26 : UpperSeq[j] = s[k]]
        ELSE s[k]]

\* s.isdigit()
IsDigit[s \in Str] == s # <<>> /\ \A k \in 1..Len(s) : s[k] \in Digits

\* re.match(r"\d{4}-\d{2}-\d{2}", s): the pattern at the start of s
MatchesDate[s \in Str] ==
    /\ Len(s) >= 10
    /\ \A k \in {1, 2, 3, 4, 6, 7, 9, 10} : s[k] \in Digits
    /\ s[5] = "-" /\ s[8] = "-"

\* s.split(sep) for a one-character sep
Split[s \in Str, sep \in Char] ==
    LET at == {i \in 1..Len(s) : s[i] = sep}
        i == SetMin(at)
    IN  IF at # {} THEN <<SubSeq(s, 1, i - 1)>> \o Split[SubSeq(s, i + 1, Len(s)), sep]
        ELSE <<s>>

\* sep.join(parts)
Join[parts \in Seq(Str), sep \in Char] ==
    IF parts = <<>> THEN <<>>
    ELSE IF Len(parts) = 1 THEN parts[1]
    ELSE parts[1] \o <<sep>> \o Join[Tail(parts), sep]

\* ------------------------------------------------------------ string values
HttpPrefix == <<"h", "t", "t", "p", ":", "/", "/">>
HttpsPrefix == <<"h", "t", "t", "p", "s", ":", "/", "/">>
Marker == <<"#", "/", "e", "x", "t", "e", "r", "n", "a", "l", "/">>
JsonSuffix == <<".", "j", "s", "o", "n">>

\* s.startswith(('http://', 'https://'))
HasHttpPrefix(s) == StartsWith[s, HttpPrefix] \/ StartsWith[s, HttpsPrefix]

\* ----------------------------------------------------------- urllib.parse
\* the first position of s holding one of chars, Len(s) + 1 when there is none
FirstOf[s \in Str, chars \in SUBSET Char] ==
    IF s = <<>> \/ Head(s) \in chars THEN 1 ELSE 1 + FirstOf[Tail(s), chars]

SchemeChars == Letters \cup Digits \cup {"+", "-", "."}
uses_relative ==
    {<<>>, <<"f", "t", "p">>, <<"h", "t", "t", "p">>,
     <<"g", "o", "p", "h", "e", "r">>, <<"n", "n", "t", "p">>,
     <<"i", "m", "a", "p">>, <<"w", "a", "i", "s">>, <<"f", "i", "l", "e">>,
     <<"h", "t", "t", "p", "s">>, <<"s", "h", "t", "t", "p">>, <<"m", "m", "s">>,
     <<"p", "r", "o", "s", "p", "e", "r", "o">>, <<"r", "t", "s", "p">>,
     <<"r", "t", "s", "p", "s">>, <<"r", "t", "s", "p", "u">>,
     <<"s", "f", "t", "p">>, <<"s", "v", "n">>,
     <<"s", "v", "n", "+", "s", "s", "h">>, <<"w", "s">>, <<"w", "s", "s">>}
uses_netloc ==
    {<<>>, <<"f", "t", "p">>, <<"h", "t", "t", "p">>,
     <<"g", "o", "p", "h", "e", "r">>, <<"n", "n", "t", "p">>,
     <<"t", "e", "l", "n", "e", "t">>, <<"i", "m", "a", "p">>,
     <<"w", "a", "i", "s">>, <<"f", "i", "l", "e">>, <<"m", "m", "s">>,
     <<"h", "t", "t", "p", "s">>, <<"s", "h", "t", "t", "p">>,
     <<"s", "n", "e", "w", "s">>, <<"p", "r", "o", "s", "p", "e", "r", "o">>,
     <<"r", "t", "s", "p">>, <<"r", "t", "s", "p", "s">>,
     <<"r", "t", "s", "p", "u">>, <<"r", "s", "y", "n", "c">>, <<"s", "v", "n">>,
     <<"s", "v", "n", "+", "s", "s", "h">>, <<"s", "f", "t", "p">>,
     <<"n", "f", "s">>, <<"g", "i", "t">>, <<"g", "i", "t", "+", "s", "s", "h">>,
     <<"w", "s">>, <<"w", "s", "s">>}

\* the parts of a URL
UrlParts == [scheme : Str, netloc : Str, path : Str, query : Str, fragment : Str]

\* urlsplit, after the netloc: the fragment follows the first "#", the query
\* the first "?" before it
SplitTail[scheme \in Str, netloc \in Str, url \in Str] ==
    LET hash == FirstOf[url, {"#"}]
        mark == FirstOf[SubSeq(url, 1, hash - 1), {"?"}]
    IN  [scheme |-> scheme, netloc |-> netloc,
         path |-> SubSeq(url, 1, mark - 1),
         query |-> SubSeq(url, mark + 1, hash - 1),
         fragment |-> SubSeq(url, hash + 1, Len(url))]

\* urlsplit, after the scheme: the netloc follows "//" up to the next "/",
\* "?" or "#" (_splitnetloc)
SplitNetloc[scheme \in Str, url \in Str] ==
    IF StartsWith[url, <<"/", "/">>]
    THEN LET delim == 2 + FirstOf[SubSeq(url, 3, Len(url)), {"/", "?", "#"}]
         IN  SplitTail[scheme, SubSeq(url, 3, delim - 1), SubSeq(url, delim, Len(url))]
    ELSE SplitTail[scheme, <<>>, url]

\* urlsplit, the scheme: the text before the first ":" is the scheme,
\* lower-cased, when it starts with a letter and consists of scheme characters
SplitScheme[url \in Str, scheme \in Str, i \in Nat] ==
    IF /\ i <= Len(url) /\ i > 1 /\ url[1] \in Letters
       /\ \A k \in 1..(i - 1) : url[k] \in SchemeChars
    THEN SplitNetloc[LowerStr[SubSeq(url, 1, i - 1)], SubSeq(url, i + 1, Len(url))]
    ELSE SplitNetloc[scheme, url]

\* urlparse(url, scheme): leading blanks of url and the blanks around the
\* default scheme are dropped first.  The alphabet has no ";", so params is
\* always empty.
urlparse[url \in Str, scheme \in Str] ==
    SplitScheme[LStrip[url], Strip[scheme], FirstOf[LStrip[url], {":"}]]

\* urlparse(s).scheme, urlparse(s).netloc, urlparse(s).path
ParseScheme[s \in Str] == urlparse[s, <<>>].scheme
Netloc[s \in Str] == urlparse[s, <<>>].netloc
UrlPath[s \in Str] == urlparse[s, <<>>].path

\* urlunparse(parts)
urlunparse(parts) ==
    LET below == \/ parts.netloc # <<>>
                 \/ /\ parts.scheme # <<>> /\ parts.scheme \in uses_netloc
                    /\ ~StartsWith[parts.path, <<"/", "/">>]
        rooted == IF parts.path # <<>> /\ Head(parts.path) # "/"
                  THEN <<"/">> \o parts.path ELSE parts.path
        url == IF below THEN <<"/", "/">> \o parts.netloc \o rooted ELSE parts.path
    IN  (IF parts.scheme # <<>> THEN parts.scheme \o <<":">> ELSE <<>>)
        \o url
        \o (IF parts.query # <<>> THEN <<"?">> \o parts.query ELSE <<>>)
        \o (IF parts.fragment # <<>> THEN <<"#">> \o parts.fragment ELSE <<>>)

\* urljoin's removal of "." and ".." segments
ResolveDots[segments \in Seq(Str), resolved \in Seq(Str)] ==
    IF segments = <<>> THEN resolved
    ELSE IF Head(segments) = <<".", ".">>
    THEN ResolveDots[Tail(segments),
                     IF Len(resolved) > 0 THEN SubSeq(resolved, 1, Len(resolved) - 1)
                     ELSE resolved]
    ELSE IF Head(segments) = <<".">> THEN ResolveDots[Tail(segments), resolved]
    ELSE ResolveDots[Tail(segments), Append(resolved, Head(segments))]

\* base_parts: the path segments of base without the last non-empty one
BaseParts[bparts \in Seq(Str)] ==
    IF bparts[Len(bparts)] # <<>> THEN SubSeq(bparts, 1, Len(bparts) - 1) ELSE bparts

\* the empty segments between the first and the last segment are dropped
FilterMiddle[all \in Seq(Str)] ==
    <<all[1]>>
    \o SelectSeq(SubSeq(all, 2, Len(all) - 1), LAMBDA x : x # <<>>)
    \o (IF Len(all) > 1 THEN <<all[Len(all)]>> ELSE <<>>)

\* the resolved segments, closed by an empty one after a final "." or ".."
Resolved[segments \in Seq(Str)] ==
    IF segments[Len(segments)] \in {<<".">>, <<".", ".">>}
    THEN Append(ResolveDots[segments, <<>>], <<>>)
    ELSE ResolveDots[segments, <<>>]

\* '/'.join(resolved_path) or '/'
JoinedPath[resolved_path \in Seq(Str)] ==
    LET joined == Join[resolved_path, "/"]
    IN  IF joined = <<>> THEN <<"/">> ELSE joined

\* urljoin, after base and url are parsed into b and r
JoinParts[url \in Str, b \in UrlParts, r \in UrlParts] ==
    LET netloc == IF r.scheme \in uses_netloc THEN b.netloc ELSE r.netloc
        segments == IF StartsWith[r.path, <<"/">>] THEN Split[r.path, "/"]
                    ELSE FilterMiddle[BaseParts[Split[b.path, "/"]] \o Split[r.path, "/"]]
    IN  IF r.scheme # b.scheme \/ r.scheme \notin uses_relative THEN url
        ELSE IF r.scheme \in uses_netloc /\ r.netloc # <<>> THEN urlunparse(r)
        ELSE IF r.path = <<>>
        THEN urlunparse([scheme |-> r.scheme, netloc |-> netloc, path |-> b.path,
                         query |-> IF r.query = <<>> THEN b.query ELSE r.query,
                         fragment |-> r.fragment])
        ELSE urlunparse([scheme |-> r.scheme, netloc |-> netloc,
                         path |-> JoinedPath[Resolved[segments]],
                         query |-> r.query, fragment |-> r.fragment])

\* urllib.parse.urljoin(base, url)
urljoin[base \in Str, url \in Str] ==
    IF base = <<>> THEN url
    ELSE IF url = <<>> THEN base
    ELSE JoinParts[url, urlparse[base, <<>>], urlparse[url, urlparse[base, <<>>].scheme]]

\* ---------------------------------------------------- extract_real_stac_url
\* real_url.split("?")[0] when "?" in real_url
StripQuery(real_url) ==
    IF Contains[real_url, <<"?">>] THEN SplitFirst[real_url, <<"?">>] ELSE real_url

\* "https://" + real_url when urlparse finds no scheme
WithScheme(real_url) ==
    IF ParseScheme[real_url] = <<>> THEN HttpsPrefix \o real_url ELSE real_url

\* the URL returned for an input that holds the marker
real_url_of(browser_url) ==
    WithScheme(StripQuery(unquote[Strip[SplitLast[browser_url, Marker]]]))

\* the result: the URL (None when the marker is missing) and what was shown
extract_real_stac_url(browser_url) ==
    IF ~Contains[browser_url, Marker]
    THEN [url |-> None, error |-> TRUE, warning |-> FALSE]
    ELSE [url |-> real_url_of(browser_url), error |-> FALSE,
          warning |-> ~EndsWith[real_url_of(browser_url), JsonSuffix]]

\* ---------------------------------------------------- resolve_relative_url
resolve_relative_url(base_url, relative_url) ==
    IF HasHttpPrefix(relative_url) THEN relative_url
    ELSE IF StartsWith[relative_url, <<".", "/">>]
         THEN urljoin[base_url, SubSeq(relative_url, 3, Len(relative_url))]
         ELSE urljoin[base_url, relative_url]

\* -------------------------------------------------------- generate_tiff_url
TifSuffix == <<".", "t", "i", "f">>
TiffSuffix == <<".", "t", "i", "f", "f">>
Keywords == {<<"v", "i", "s", "u", "a", "l">>, <<"r", "g", "b">>,
             <<"n", "a", "t", "u", "r", "a", "l">>}
EventsWord == <<"e", "v", "e", "n", "t", "s">>
TemplateHead ==
    <<"h", "t", "t", "p", "s", ":", "/", "/", "m", "a", "x", "a", "r", "-", "o", "p",
      "e", "n", "d", "a", "t", "a", ".", "s", "3", ".", "a", "m", "a", "z", "o", "n",
      "a", "w", "s", ".", "c", "o", "m", "/", "e", "v", "e", "n", "t", "s", "/">>
TemplateArd == <<"/", "a", "r", "d", "/">>
TemplateTail == <<"-", "v", "i", "s", "u", "a", "l", ".", "t", "i", "f">>
DefaultImageId ==
    <<"1", "0", "4", "0", "0", "1", "0", "0", "A", "F", "C", "2", "6", "5", "0", "0">>

\* an asset descriptor that is not a JSON object
NotDict == [href |-> None]

\* the outcome of generate_tiff_url: the URL or None, and the exception the
\* except clause showed in its warning ("" when it showed none)
Derived(u) == [url |-> u, warning |-> ""]
RaisedWith(e) == [url |-> None, warning |-> e]

\* href and href.endswith((".tif", ".tiff"))
IsTiff(href) == href # <<>> /\ (EndsWith[href, TifSuffix] \/ EndsWith[href, TiffSuffix])

\* any(keyword in asset_name.lower() for keyword in ["visual", "rgb", "natural"])
IsVisualName(asset_name) == \E keyword \in Keywords : Contains[LowerStr[asset_name], keyword]

\* faulty variant: every TIFF is appended, whatever the asset is called
AddAsset_AppendOnly(stac_item_url, asset, visual_assets) ==
    IF ~IsTiff(asset.info.href) THEN visual_assets
    ELSE Append(visual_assets, resolve_relative_url(stac_item_url, asset.info.href))

\* visual_assets after one asset: a visual one is inserted at the front, any
\* other TIFF is appended
AddAsset(stac_item_url, asset, visual_assets) ==
    IF ~IsTiff(asset.info.href) THEN visual_assets
    ELSE IF IsVisualName(asset.name)
    THEN <<resolve_relative_url(stac_item_url, asset.info.href)>> \o visual_assets
    ELSE Append(visual_assets, resolve_relative_url(stac_item_url, asset.info.href))

\* the loop over assets.items(): visual_assets after it; raised when an asset
\* descriptor has no .get
RECURSIVE visual_assets_loop(_, _, _)
visual_assets_loop(stac_item_url, assets, visual_assets) ==
    IF assets = <<>> THEN [raised |-> FALSE, list |-> visual_assets]
    ELSE IF Head(assets).info = NotDict THEN [raised |-> TRUE, list |-> <<>>]
    ELSE visual_assets_loop(stac_item_url, Tail(assets),
                            AddAsset(stac_item_url, Head(assets), visual_assets))

\* the loop over path_parts leaves in a component the last part that matches,
\* and the value taken from the properties when no part does
LastIndex(S) == IF S = {} THEN 0 ELSE SetMax(S)

EventIndex[path_parts \in Seq(Str)] ==
    LastIndex({i \in 1..(Len(path_parts) - 1) : Contains[path_parts[i], EventsWord]})
GridIndex[path_parts \in Seq(Str)] ==
    LastIndex({i \in 1..Len(path_parts) : IsDigit[path_parts[i]] /\ Len(path_parts[i]) = 2})
TileIndex[path_parts \in Seq(Str)] ==
    LastIndex({i \in 1..Len(path_parts) : IsDigit[path_parts[i]] /\ Len(path_parts[i]) = 12})
DateIndex[path_parts \in Seq(Str)] ==
    LastIndex({i \in 1..Len(path_parts) : MatchesDate[path_parts[i]]})

path_parts_loop(path_parts, c) ==
    [event_name |-> IF EventIndex[path_parts] = 0 THEN c.event_name
                    ELSE path_parts[EventIndex[path_parts] + 1],
     grid |-> IF GridIndex[path_parts] = 0 THEN c.grid ELSE path_parts[GridIndex[path_parts]],
     tile |-> IF TileIndex[path_parts] = 0 THEN c.tile ELSE path_parts[TileIndex[path_parts]],
     date |-> IF DateIndex[path_parts] = 0 THEN c.date ELSE path_parts[DateIndex[path_parts]]]

\* the components read from the properties
from_properties(properties) ==
    [event_name |-> properties.event,
     grid |-> properties.grid,
     tile |-> properties.tile,
     date |-> IF Truthy(properties.datetime)
              THEN SplitFirst[properties.datetime, <<"T">>] ELSE None]

\* the components after the properties and the URL path have been read
components(stac_item_url, item_data) ==
    path_parts_loop(Split[UrlPath[stac_item_url], "/"], from_properties(item_data.properties))

\* the identifier of the synthesized URL
base_image_id(image_id) ==
    IF Truthy(image_id)
    THEN IF Len(image_id) >= 16 /\ \E k \in 1..Len(image_id) : image_id[k] \in Letters
         THEN SubSeq(image_id, 1, 16)
         ELSE DefaultImageId
    ELSE DefaultImageId

\* the body of the "if status_code == 200" branch for a JSON object item_data
derive_from_item(stac_item_url, item_data) ==
    IF ~(item_data.type = "Feature" /\ item_data.stac_version # "")
    THEN Derived(None)
    ELSE LET visual_assets == visual_assets_loop(stac_item_url, item_data.assets, <<>>)
             c == components(stac_item_url, item_data)
         IN  IF visual_assets.raised THEN RaisedWith("AttributeError")
             ELSE IF visual_assets.list # <<>> THEN Derived(visual_assets.list[1])
             ELSE IF Truthy(c.event_name) /\ Truthy(c.grid) /\ Truthy(c.tile) /\ Truthy(c.date)
                  THEN Derived(TemplateHead \o c.event_name \o TemplateArd \o c.grid
                               \o <<"/">> \o c.tile \o <<"/">> \o c.date \o <<"/">>
                               \o base_image_id(item_data.id) \o TemplateTail)
                  ELSE Derived(None)

\* generate_tiff_url(stac_item_url) when the GET is answered by resp
generate_tiff_url(stac_item_url, resp) ==
    IF resp.net = "error" THEN RaisedWith("ConnectionError")
    ELSE IF resp.status # 200 THEN Derived(None)
    ELSE IF resp.body = "notjson" THEN RaisedWith("JSONDecodeError")
    ELSE IF resp.body = "list" THEN RaisedWith("AttributeError")
    ELSE derive_from_item(stac_item_url, resp.item)

\* ------------------------------------------------------------------ inputs
\* "https://h/"
Site == HttpsPrefix \o <<"h", "/">>
FileNames == {<<"a">> \o JsonSuffix, <<"b">> \o JsonSuffix, <<"c">> \o JsonSuffix}
RootUrl == Site \o <<"a">> \o JsonSuffix

\* nothing typed yet
EmptyInput == <<>>
\* a direct JSON URL, without the marker
DirectInput == RootUrl
\* "https://s/#/external/https%3A%2F%2Fh%2Fa.json?l=en"
BrowserInput ==
    HttpsPrefix \o <<"s", "/">> \o Marker
    \o <<"h", "t", "t", "p", "s", "%", "3", "A", "%", "2", "F", "%", "2", "F", "h", "%", "2", "F">>
    \o <<"a">> \o JsonSuffix \o <<"?", "l", "=", "e", "n">>
Inputs == {EmptyInput, DirectInput, BrowserInput}

\* the links a document can carry
\* hrefs: "a.json", "b.json", "c.json" and "./b.json"
Hrefs == FileNames \cup {<<".", "/", "b">> \o JsonSuffix}
Rels == {"item", "collection"}
\* a link without href, a link of another rel, and every listed rel with every href
NoHrefLink == [href |-> <<>>, rel |-> "item"]
ChildLink == [href |-> <<"b">> \o JsonSuffix, rel |-> "child"]
Links == {NoHrefLink, ChildLink} \cup [href : Hrefs, rel : Rels]
LinkLists(n) == UNION {[1..k -> Links] : k \in 0..n}

\* the non-link part of a JSON object body
NoProperties == [event |-> None, grid |-> None, tile |-> None, datetime |-> None]
\* a catalog or collection: not a STAC Item
CatalogDoc ==
    [type |-> "Catalog", stac_version |-> "1.0.0", assets |-> <<>>,
     properties |-> NoProperties, id |-> None]
\* an item with the assets {"data": {href: "d.tif"}, "visual": {href: "v.tif"}}
VisualItem ==
    [type |-> "Feature", stac_version |-> "1.0.0",
     assets |-> <<[name |-> <<"d", "a", "t", "a">>,
                   info |-> [href |-> <<"d">> \o TifSuffix]],
                  [name |-> <<"v", "i", "s", "u", "a", "l">>,
                   info |-> [href |-> <<"v">> \o TifSuffix]]>>,
     properties |-> NoProperties, id |-> None]
\* an item whose asset descriptor is a string, not an object, and a catalog
\* with such an asset
BrokenAsset == [name |-> <<"v", "i", "s", "u", "a", "l">>, info |-> NotDict]
BrokenItem ==
    [type |-> "Feature", stac_version |-> "1.0.0",
     assets |-> <<BrokenAsset>>,
     properties |-> NoProperties, id |-> None]
BrokenCatalog == [CatalogDoc EXCEPT !.assets = <<BrokenAsset>>]
ItemDocs == {CatalogDoc, VisualItem, BrokenItem, BrokenCatalog}

\* what a GET can be answered with: no answer, an error status, a body that
\* is not JSON, a JSON array, a JSON object
Answers ==
    {[net |-> "error", status |-> 0, body |-> "none"],
     [net |-> "ok", status |-> 404, body |-> "notjson"],
     [net |-> "ok", status |-> 200, body |-> "notjson"],
     [net |-> "ok", status |-> 200, body |-> "list"],
     [net |-> "ok", status |-> 200, body |-> "object"]}

\* ------------------------------------------------------------------- state
VARIABLES
    root_url_input,  \* the text of the input box
    real_url,        \* what extract_real_stac_url returned, None before
    pc,              \* where the script is: main, crawl, done, idle, rejected, raised
    stack,           \* the active calls of crawl_stac, the innermost last
    visited,         \* the visited set of the run
    all_links,       \* the discovered STAC links
    tiff_links,      \* the derived TIFF URLs
    server,          \* what the remote server has answered so far, per URL
    gets,            \* the GETs issued so far, in order
    shown            \* the st.error and st.warning messages shown so far

vars == <<root_url_input, real_url, pc, stack, visited, all_links, tiff_links, server, gets, shown>>

Range(seq) == {seq[k] : k \in 1..Len(seq)}
Min(x, y) == IF x <= y THEN x ELSE y

\* a call crawl_stac(url, visited) that has not run its first statement
Call(url) == [url |-> url, pc |-> "enter", links |-> <<>>, i |-> 1]
Top == stack[Len(stack)]
SetTop(f) == [stack EXCEPT ![Len(stack)] = f]

\* the innermost call returns; the script is done when it was the outermost
Return ==
    /\ stack' = SubSeq(stack, 1, Len(stack) - 1)
    /\ pc' = IF Len(stack) = 1 THEN "done" ELSE pc

\* ------------------------------------------------------------ remote server
Asked(u) == u \in DOMAIN server
AnswersTo(u) == IF Asked(u) THEN {server[u].answer} ELSE Answers
Entry(u, a) ==
    IF Asked(u) THEN server[u]
    ELSE [answer |-> a, links |-> <<>>, links_read |-> FALSE,
          item |-> CatalogDoc, item_read |-> FALSE]
Put(u, e) == [v \in DOMAIN server \cup {u} |-> IF v = u THEN e ELSE server[v]]

RECURSIVE LinksOf(_)
LinksOf(us) ==
    IF us = {} THEN 0
    ELSE LET u == CHOOSE v \in us : TRUE IN Len(server[u].links) + LinksOf(us \ {u})

\* the "links" array of a body and its other fields are fixed when first read
LinkChoices(e) ==
    IF e.links_read THEN {e.links}
    ELSE LinkLists(Min(MaxLinks, MaxTotalLinks - LinksOf(DOMAIN server)))
ItemChoices(e) == IF e.item_read THEN {e.item} ELSE ItemDocs

\* the exception the try block of crawl_stac raises on answer a, "" for none
CrawlFailure(a) ==
    IF a.net = "error" THEN "ConnectionError"
    ELSE IF a.status >= 400 /\ a.status < 600 THEN "HTTPError"
    ELSE IF a.body = "notjson" THEN "JSONDecodeError"
    ELSE ""

\* ------------------------------------------------- the tests of crawl_stac
\* faulty variant: the visited test never finds the URL
AlreadyVisited_Never(url) == FALSE

\* faulty variant: visited is copied at each call, so only the callers' URLs are known
AlreadyVisited_OnPath(url) == url \in {stack[k].url : k \in 1..(Len(stack) - 1)}

\* url in visited
AlreadyVisited(url) == url \in visited

\* faulty variant: the URL is not marked
MarkVisited_Not(url) == visited

\* visited.add(url)
MarkVisited(url) == visited \cup {url}

\* faulty variant: every rel is listed
IsListedRel_Any(rel) == TRUE

\* rel in ["item", "collection"]
IsListedRel(rel) == rel \in {"item", "collection"}

\* faulty variant: the test for an already listed link is missing
AlreadyListed_Never(abs_href) == FALSE

\* abs_href in all_links
AlreadyListed(abs_href) == abs_href \in Range(all_links)

\* faulty variant: all_links.insert(0, abs_href)
AppendLink_Front(abs_href) == <<abs_href>> \o all_links

\* all_links.append(abs_href)
AppendLink(abs_href) == Append(all_links, abs_href)

\* faulty variant: generate_tiff_url is called for every item link
DerivesFor_EveryItem(rel, appended) == rel = "item"

\* faulty variant: generate_tiff_url is called for every appended link
DerivesFor_Collections(rel, appended) == appended

\* generate_tiff_url is called: the link was just appended and rel == "item"
DerivesFor(rel, appended) == appended /\ rel = "item"

\* faulty variant: the recursive call sits inside "if abs_href not in all_links"
Recurses_OnlyAppended(rel, appended) == rel = "collection" /\ appended

\* faulty variant: item links are crawled too
Recurses_ItemsToo(rel, appended) == rel \in {"item", "collection"}

\* crawl_stac is called: rel == "collection", appended just now or not
Recurses(rel, appended) == rel = "collection"

\* -------------------------------------------------------------------- Init
Init ==
    /\ root_url_input \in Inputs
    /\ real_url = None
    /\ pc = "main"
    /\ stack = <<>>
    /\ visited = {}
    /\ all_links = <<>>
    /\ tiff_links = <<>>
    /\ server = [u \in {} |-> Entry(u, CHOOSE a \in Answers : TRUE)]
    /\ gets = <<>>
    /\ shown = <<>>

\* ----------------------------------------------------------------- actions
\* MAIN EXECUTION up to the call crawl_stac(real_url)
Main ==
    /\ pc = "main"
    /\ UNCHANGED <<root_url_input, visited, all_links, tiff_links, server, gets>>
    /\ IF root_url_input = <<>>
       THEN pc' = "idle" /\ UNCHANGED <<real_url, stack, shown>>
       ELSE \E r \in {extract_real_stac_url(root_url_input)} :
                /\ real_url' = r.url
                /\ IF r.error
                   THEN /\ pc' = "rejected"
                        /\ shown' = Append(shown, [level |-> "error", fn |-> "extract_real_stac_url",
                                                   url |-> root_url_input, cause |-> "no marker"])
                        /\ UNCHANGED stack
                   ELSE /\ shown' = IF r.warning
                                    THEN Append(shown, [level |-> "warning", fn |-> "extract_real_stac_url",
                                                        url |-> r.url, cause |-> "not .json"])
                                    ELSE shown
                        /\ IF Truthy(r.url)
                           THEN pc' = "crawl" /\ stack' = <<Call(r.url)>>
                           ELSE pc' = "rejected" /\ UNCHANGED stack

\* crawl_stac: the visited test and visited.add(url)
CrawlEnter ==
    /\ pc = "crawl" /\ Top.pc = "enter"
    /\ UNCHANGED <<root_url_input, real_url, all_links, tiff_links, server, gets, shown>>
    /\ IF AlreadyVisited(Top.url)
       THEN Return /\ UNCHANGED visited
       ELSE /\ visited' = MarkVisited(Top.url)
            /\ stack' = SetTop([Top EXCEPT !.pc = "fetch"])
            /\ UNCHANGED pc

\* crawl_stac: the try block and links = data.get("links", [])
CrawlFetch ==
    /\ pc = "crawl" /\ Top.pc = "fetch"
    /\ UNCHANGED <<root_url_input, real_url, visited, all_links, tiff_links>>
    /\ gets' = Append(gets, [by |-> "crawl_stac", url |-> Top.url])
    /\ \E a \in AnswersTo(Top.url) :
        LET e == Entry(Top.url, a)
        IN  IF CrawlFailure(a) # ""
            THEN /\ shown' = Append(shown, [level |-> "warning", fn |-> "crawl_stac",
                                            url |-> Top.url, cause |-> CrawlFailure(a)])
                 /\ server' = Put(Top.url, e)
                 /\ Return
            ELSE IF a.body # "object"
            THEN \* data has no .get: the AttributeError leaves every call
                 /\ pc' = "raised"
                 /\ stack' = <<>>
                 /\ server' = Put(Top.url, e)
                 /\ UNCHANGED shown
            ELSE \E ls \in LinkChoices(e) :
                 /\ server' = Put(Top.url, [e EXCEPT !.links = ls, !.links_read = TRUE])
                 /\ stack' = SetTop([Top EXCEPT !.links = ls, !.i = 1, !.pc = "loop"])
                 /\ UNCHANGED <<pc, shown>>

\* crawl_stac: one pass of the loop over links, up to a call it makes
ScanLink ==
    /\ pc = "crawl" /\ Top.pc = "loop" /\ Top.i <= Len(Top.links)
    /\ UNCHANGED <<root_url_input, real_url, pc, visited, tiff_links, server, gets, shown>>
    /\ \E abs_href \in {urljoin[Top.url, Top.links[Top.i].href]} :
       LET href == Top.links[Top.i].href
           rel == Top.links[Top.i].rel
           next == [Top EXCEPT !.i = Top.i + 1]
           appended == ~AlreadyListed(abs_href)
       IN  IF ~Truthy(href)
           THEN stack' = SetTop(next) /\ UNCHANGED all_links
           ELSE IF IsListedRel(rel)
           THEN /\ all_links' = IF appended THEN AppendLink(abs_href) ELSE all_links
                /\ stack' = IF DerivesFor(rel, appended)
                            THEN SetTop([Top EXCEPT !.pc = "derive"])
                            ELSE IF Recurses(rel, appended)
                            THEN Append(SetTop(next), Call(abs_href))
                            ELSE SetTop(next)
           ELSE stack' = SetTop(next) /\ UNCHANGED all_links

\* crawl_stac: tiff_url = generate_tiff_url(abs_href) and what is done with it
Derive ==
    /\ pc = "crawl" /\ Top.pc = "derive"
    /\ UNCHANGED <<root_url_input, real_url, pc, visited, all_links>>
    /\ \E abs_href \in {urljoin[Top.url, Top.links[Top.i].href]} :
           /\ gets' = Append(gets, [by |-> "generate_tiff_url", url |-> abs_href])
           /\ \E a \in AnswersTo(abs_href) :
              \E it \in (IF a.status = 200 /\ a.body = "object"
                         THEN ItemChoices(Entry(abs_href, a)) ELSE {CatalogDoc}) :
              \E r \in {generate_tiff_url(abs_href, [net |-> a.net, status |-> a.status,
                                                     body |-> a.body, item |-> it])} :
                LET e == Entry(abs_href, a)
                    tiff_url == r.url
                IN  /\ server' = Put(abs_href,
                                     IF a.status = 200 /\ a.body = "object"
                                     THEN [e EXCEPT !.item = it, !.item_read = TRUE] ELSE e)
                    /\ shown' = IF r.warning # ""
                                THEN Append(shown, [level |-> "warning", fn |-> "generate_tiff_url",
                                                    url |-> abs_href, cause |-> r.warning])
                                ELSE shown
                    /\ tiff_links' = IF Truthy(tiff_url)
                                     THEN Append(tiff_links,
                                                 IF HasHttpPrefix(tiff_url) THEN tiff_url
                                                 ELSE resolve_relative_url(abs_href, tiff_url))
                                     ELSE tiff_links
                    /\ stack' = SetTop([Top EXCEPT !.pc = "loop", !.i = Top.i + 1])

\* crawl_stac: the loop over links is over
CrawlReturn ==
    /\ pc = "crawl" /\ Top.pc = "loop" /\ Top.i > Len(Top.links)
    /\ Return
    /\ UNCHANGED <<root_url_input, real_url, visited, all_links, tiff_links, server, gets, shown>>

Next == Main \/ CrawlEnter \/ CrawlFetch \/ ScanLink \/ Derive \/ CrawlReturn

Spec == Init /\ [][Next]_vars

\* the script runs on: every GET is answered or fails
FairSpec == Spec /\ WF_vars(Next)

TypeOK ==
    /\ pc \in {"main", "crawl", "done", "idle", "rejected", "raised"}
    /\ (stack # <<>>) = (pc = "crawl")
    /\ \A k \in 1..Len(stack) : stack[k].pc \in {"enter", "fetch", "loop", "derive"}
    /\ Len(all_links) >= Len(tiff_links)

\* ------------------------------------------ the normaliser on many inputs
\* what precedes the last marker: nothing, a browser URL, a text holding a
\* marker of its own ("x#/external/y")
BeforeMarker == {<<>>, HttpsPrefix \o <<"s", "/">>, <<"x">> \o Marker \o <<"y">>}
\* how the embedded URL starts: no scheme, "https://", "http://",
\* "https%3A%2F%2F", "https%3a%2f%2f", "%20https://", "HTTPS://", "ftp://",
\* "%23/external/" (an encoded marker)
EmbeddedStarts ==
    {<<>>, HttpsPrefix, HttpPrefix,
     <<"h", "t", "t", "p", "s", "%", "3", "A", "%", "2", "F", "%", "2", "F">>,
     <<"h", "t", "t", "p", "s", "%", "3", "a", "%", "2", "f", "%", "2", "f">>,
     <<"%", "2", "0">> \o HttpsPrefix,
     <<"H", "T", "T", "P", "S", ":", "/", "/">>,
     <<"f", "t", "p", ":", "/", "/">>,
     <<"%", "2", "3", "/", "e", "x", "t", "e", "r", "n", "a", "l", "/">>}
\* host and path: "h/a.json", "h:80/a.json", "h/a", "h%3Fq/a.json",
\* "h/a%2Ejson", nothing
EmbeddedRests ==
    {<<"h", "/", "a">> \o JsonSuffix, <<"h", ":", "8", "0", "/", "a">> \o JsonSuffix,
     <<"h", "/", "a">>, <<"h", "%", "3", "F", "q", "/", "a">> \o JsonSuffix,
     <<"h", "/", "a", "%", "2", "E", "j", "s", "o", "n">>, <<>>}
\* the browser's query: none, "?l=en", "?a?b"
Queries == {<<>>, <<"?", "l", "=", "e", "n">>, <<"?", "a", "?", "b">>}
\* typed with or without a blank at the end
Trailers == {<<>>, <<" ">>}
MarkedInputs ==
    {b \o Marker \o st \o r \o q \o t :
        b \in BeforeMarker, st \in EmbeddedStarts, r \in EmbeddedRests,
        q \in Queries, t \in Trailers}
ExtractInputs == Inputs \cup MarkedInputs

\* the script up to the call of crawl_stac, on any of these inputs
ExtractInit ==
    /\ root_url_input \in ExtractInputs
    /\ real_url = None
    /\ pc = "main"
    /\ stack = <<>>
    /\ visited = {}
    /\ all_links = <<>>
    /\ tiff_links = <<>>
    /\ server = [u \in {} |-> Entry(u, CHOOSE a \in Answers : TRUE)]
    /\ gets = <<>>
    /\ shown = <<>>

ExtractSpec == ExtractInit /\ [][Main]_vars

\* --------------------------------------- the derivation on many documents
\* longest assets mapping of an item document
MaxAssets == 3

\* the assets an item can carry: "data" d.tif, "visual" .//g/v.tif,
\* "RGB" https:///r.tiff, "thumb" t.png, "natural" n.png, "image" /x/../i.tif
DataAsset == [name |-> <<"d", "a", "t", "a">>, info |-> [href |-> <<"d", ".", "t", "i", "f">>]]
VisualAsset == [name |-> <<"v", "i", "s", "u", "a", "l">>, info |-> [href |-> <<".", "/", "/", "g", "/", "v", ".", "t", "i", "f">>]]
RgbAsset == [name |-> <<"R", "G", "B">>, info |-> [href |-> <<"h", "t", "t", "p", "s", ":", "/", "/", "/", "r", ".", "t", "i", "f", "f">>]]
ThumbAsset == [name |-> <<"t", "h", "u", "m", "b">>, info |-> [href |-> <<"t", ".", "p", "n", "g">>]]
NaturalPng == [name |-> <<"n", "a", "t", "u", "r", "a", "l">>, info |-> [href |-> <<"n", ".", "p", "n", "g">>]]
RootedAsset ==
    [name |-> <<"i", "m", "a", "g", "e">>,
     info |-> [href |-> <<"/", "x", "/", ".", ".", "/", "i", ".", "t", "i", "f">>]]
Assets == {DataAsset, VisualAsset, RgbAsset, ThumbAsset, NaturalPng, RootedAsset}
\* an assets mapping in the order of its keys: no name twice
AssetMaps ==
    {m \in UNION {[1..k -> Assets] : k \in 0..MaxAssets} :
        \A i, j \in 1..Len(m) : i # j => m[i].name # m[j].name}

\* properties {event: "X", grid: "44", tile: "033313123002",
\*             datetime: "2025-01-01T00:00:00Z"}, and the same without event
FullProperties ==
    [event |-> <<"X">>, grid |-> <<"4", "4">>, tile |-> <<"0", "3", "3", "3", "1", "3", "1", "2", "3", "0", "0", "2">>,
     datetime |-> <<"2", "0", "2", "5", "-", "0", "1", "-", "0", "1", "T", "0", "0", ":", "0", "0", ":", "0", "0", "Z">>]
NoEventProperties == [FullProperties EXCEPT !.event = None]
PropertySets == {NoProperties, FullProperties, NoEventProperties}

\* ids: none, "abc", "10500100ABCDEF001" (17 characters), "1234567890123456"
ItemIds == {None, <<"a", "b", "c">>, <<"1", "0", "5", "0", "0", "1", "0", "0", "A", "B", "C", "D", "E", "F", "0", "0", "1">>, <<"1", "2", "3", "4", "5", "6", "7", "8", "9", "0", "1", "2", "3", "4", "5", "6">>}

\* where the item is linked from the root: "b.json", "events/" (an empty
\* part follows the events part), "events/E/b.json",
\* "events/E/55/120000000000/2024-02-02/b.json"
ItemHrefs ==
    {<<"b", ".", "j", "s", "o", "n">>, <<"e", "v", "e", "n", "t", "s", "/">>, <<"e", "v", "e", "n", "t", "s", "/", "E", "/", "b", ".", "j", "s", "o", "n">>,
     <<"e", "v", "e", "n", "t", "s", "/", "E", "/", "5", "5", "/", "1", "2", "0", "0", "0", "0", "0", "0", "0", "0", "0", "0", "/", "2", "0", "2", "4", "-", "0", "2", "-", "0", "2", "/", "b", ".", "j", "s", "o", "n">>}

\* assets mappings with an asset that is not an object
BrokenMaps == {<<BrokenAsset>>, <<DataAsset, BrokenAsset>>}

\* a catalog, the items over these assets, properties and ids, and the
\* documents with a malformed asset: items, an item without stac_version,
\* a catalog
DeriveItems ==
    {CatalogDoc, BrokenCatalog}
    \cup {[type |-> "Feature", stac_version |-> "1.0.0", assets |-> m,
           properties |-> p, id |-> i] :
            m \in AssetMaps, p \in PropertySets, i \in ItemIds}
    \cup {[type |-> "Feature", stac_version |-> v, assets |-> m,
           properties |-> p, id |-> None] :
            v \in {"1.0.0", ""}, m \in BrokenMaps, p \in {NoProperties, FullProperties}}

\* crawl_stac has read the root, whose only link is an item link, has
\* appended its target and is about to call generate_tiff_url; the document
\* the server holds at the item URL is one of DeriveItems
DeriveInit ==
    \E href \in ItemHrefs, d \in DeriveItems :
        /\ root_url_input = BrowserInput
        /\ real_url = RootUrl
        /\ pc = "crawl"
        /\ stack = <<[url |-> RootUrl, pc |-> "derive", i |-> 1,
                      links |-> <<[href |-> href, rel |-> "item"]>>]>>
        /\ visited = {RootUrl}
        /\ all_links = <<urljoin[RootUrl, href]>>
        /\ tiff_links = <<>>
        /\ server = [u \in {RootUrl, urljoin[RootUrl, href]} |->
                        IF u = RootUrl
                        THEN [answer |-> [net |-> "ok", status |-> 200, body |-> "object"],
                              links |-> <<[href |-> href, rel |-> "item"]>>,
                              links_read |-> TRUE, item |-> CatalogDoc, item_read |-> FALSE]
                        ELSE [answer |-> [net |-> "ok", status |-> 200, body |-> "object"],
                              links |-> <<>>, links_read |-> FALSE,
                              item |-> d, item_read |-> TRUE]]
        /\ gets = <<[by |-> "crawl_stac", url |-> RootUrl]>>
        /\ shown = <<>>

DeriveNext == Derive \/ CrawlReturn

DeriveSpec == DeriveInit /\ [][DeriveNext]_vars

\* ------------------------------------------------- vocabulary of the claims
Final == {"done", "idle", "rejected", "raised"}

\* how often fn has issued a GET of u
GetsBy(fn, u) == Cardinality({k \in 1..Len(gets) : gets[k].by = fn /\ gets[k].url = u})

\* the links array crawl_stac has read at u
LinksAt(u) == IF Asked(u) /\ server[u].links_read THEN server[u].links ELSE <<>>

\* full_url = urljoin(url, href), tabulated for the document URLs and the
\* hrefs of the crawl
full_url ==
    [url \in {Site \o f : f \in FileNames}, href \in Hrefs \cup {<<>>} |-> urljoin[url, href]]

\* the positions of the links of u with a non-empty href and a rel in rels
LinkIndexes(u, rels) ==
    {k \in 1..Len(LinksAt(u)) : LinksAt(u)[k].href # <<>> /\ LinksAt(u)[k].rel \in rels}

\* the URLs those links resolve to
Targets(u, rels) == {full_url[u, LinksAt(u)[k].href] : k \in LinkIndexes(u, rels)}

\* how many links with rel in rels, of all documents read, resolve to t
LinksTo(t, rels) ==
    Cardinality({p \in UNION {{<<u, k>> : k \in LinkIndexes(u, rels)} : u \in DOMAIN server} :
                    full_url[p[1], LinksAt(p[1])[p[2]].href] = t})

\* the URL main hands to crawl_stac
Root == real_url

\* the URLs listed and the rel of the link that listed each, in first-seen
\* depth-first order over the documents read
RECURSIVE FoundCall(_, _)
RECURSIVE FoundLoop(_, _, _)
FoundCall(u, st) ==
    IF u \in st.seen THEN st
    ELSE FoundLoop(u, 1, [seen |-> st.seen \cup {u}, out |-> st.out])
FoundLoop(u, k, st) ==
    IF k > Len(LinksAt(u)) THEN st
    ELSE LET l == LinksAt(u)[k]
             t == full_url[u, l.href]
             listed == IF l.href # <<>> /\ l.rel \in {"item", "collection"}
                          /\ \A n \in 1..Len(st.out) : st.out[n].url # t
                       THEN [st EXCEPT !.out = Append(@, [url |-> t, rel |-> l.rel])]
                       ELSE st
             below == IF l.href # <<>> /\ l.rel = "collection"
                      THEN FoundCall(t, listed) ELSE listed
         IN  FoundLoop(u, k + 1, below)

\* the URLs first listed through a rel=item link, in the order of all_links
ItemsFound ==
    LET found == FoundCall(Root, [seen |-> {}, out |-> <<>>]).out
        items == SelectSeq(found, LAMBDA f : f.rel = "item")
    IN  [k \in 1..Len(items) |-> items[k].url]

\* ---------------------------------------------------------------------- C1
\* C1: at every point of a run, all_links holds no URL twice.
C1_NoDuplicateLinks ==
    \A i, j \in 1..Len(all_links) : i # j => all_links[i] # all_links[j]

\* a finished run in which some URL was linked both as item and as collection
C1_Witness ==
    /\ pc = "done"
    /\ \E t \in Range(all_links) : LinksTo(t, {"item"}) >= 1 /\ LinksTo(t, {"collection"}) >= 1

\* ---------------------------------------------------------------------- C2
\* C2 as stated: no URL is the target of two GETs of a run, whichever function
\* issues them.
C2_OneGetPerUrl ==
    \A i, j \in 1..Len(gets) : i # j => gets[i].url # gets[j].url

\* C2 as amended: no URL is the target of two GETs by crawl_stac, nor of two
\* GETs by generate_tiff_url; a URL that got a GET by each is one crawl_stac
\* was called on and that was first listed through a rel=item link, and when
\* the run ends normally every such URL has got a GET by each.
C2_OneGetPerUrlAndFunction ==
    /\ \A i, j \in 1..Len(gets) :
          i # j /\ gets[i].by = gets[j].by => gets[i].url # gets[j].url
    /\ pc \in {"crawl", "done", "raised"}
          => \E items \in {Range(ItemsFound)} :
                /\ \A u \in DOMAIN server :
                      (GetsBy("crawl_stac", u) = 1 /\ GetsBy("generate_tiff_url", u) = 1)
                          => (u \in visited /\ u \in items)
                /\ pc = "done"
                      => \A u \in visited \cap items :
                            GetsBy("crawl_stac", u) = 1 /\ GetsBy("generate_tiff_url", u) = 1

\* a finished run in which a URL linked as item and then as collection got
\* one GET by each
C2_Witness ==
    /\ pc = "done"
    /\ \E t \in Range(ItemsFound) :
        /\ LinksTo(t, {"item"}) >= 1 /\ LinksTo(t, {"collection"}) >= 1
        /\ GetsBy("crawl_stac", t) = 1
        /\ GetsBy("generate_tiff_url", t) = 1

\* ---------------------------------------------------------------------- C3
\* C3: crawl_stac(root) terminates, also on cyclic graphs, and every URL in
\* the visited set has been fetched by crawl_stac exactly once.
C3_TerminatesVisitingOnce ==
    <>(pc \in Final /\ \A u \in visited : GetsBy("crawl_stac", u) = 1)

\* a finished run over a cycle of collection links between two documents
C3_Witness ==
    /\ pc = "done"
    /\ \E u, v \in visited :
        /\ u # v
        /\ v \in Targets(u, {"collection"}) /\ u \in Targets(v, {"collection"})
        /\ GetsBy("crawl_stac", u) = 1 /\ GetsBy("crawl_stac", v) = 1

\* ---------------------------------------------------------------------- C4
\* the answer is a JSON object
UsableAnswer(a) == CrawlFailure(a) = "" /\ a.body = "object"

\* the GET of u was answered with a JSON object
Usable(u) == Asked(u) /\ UsableAnswer(server[u].answer)

\* C4: a fetch by crawl_stac that yields no usable document only ends that
\* call: nothing is raised, the output sequences stay as they are, and the
\* calling documents go on from where they were.
C4_FailedFetchEndsBranch ==
    [][(pc = "crawl" /\ Top.pc = "fetch" /\ Len(gets') > Len(gets)
        /\ ~UsableAnswer(server'[Top.url].answer))
        => /\ pc' # "raised"
           /\ stack' = SubSeq(stack, 1, Len(stack) - 1)
           /\ all_links' = all_links /\ tiff_links' = tiff_links]_vars

\* ---------------------------------------------------------------------- C5
\* every GET of crawl_stac was answered with a JSON object
AllCrawlFetchesOk ==
    \A k \in 1..Len(gets) : gets[k].by = "crawl_stac" => Usable(gets[k].url)

\* the URLs reachable from those of S over rel=collection links
RECURSIVE Reach(_)
Reach(S) ==
    LET N == S \cup UNION {Targets(u, {"collection"}) : u \in S}
    IN  IF N = S THEN S ELSE Reach(N)

\* C5: when every fetch of crawl_stac succeeds, a finished run has visited
\* every document reachable from the root over rel=collection links, and
\* all_links holds the target of every item and collection link (non-empty
\* href) of every visited document.
C5_CrawlComplete ==
    (pc = "done" /\ AllCrawlFetchesOk)
        => /\ Reach({Root}) \subseteq visited
           /\ \A u \in visited : Targets(u, {"item", "collection"}) \subseteq Range(all_links)

\* a finished run without a failure that crawled a document first found
\* through an item link and later through a collection link
C5_Witness ==
    /\ pc = "done" /\ AllCrawlFetchesOk
    /\ \E t \in visited \ {Root} :
        /\ GetsBy("generate_tiff_url", t) = 1
        /\ LinksTo(t, {"collection"}) >= 1
        /\ Targets(t, {"item", "collection"}) # {}

\* ---------------------------------------------------------------------- C6
IsPrefix(p, q) == Len(p) <= Len(q) /\ SubSeq(q, 1, Len(p)) = p

\* first-seen depth-first order, as a function of the documents read: st is
\* the set of documents entered and the URLs listed so far
RECURSIVE DfsCall(_, _)
RECURSIVE DfsLoop(_, _, _)
DfsCall(u, st) ==
    IF u \in st.seen THEN st
    ELSE DfsLoop(u, 1, [seen |-> st.seen \cup {u}, out |-> st.out])
DfsLoop(u, k, st) ==
    IF k > Len(LinksAt(u)) THEN st
    ELSE LET l == LinksAt(u)[k]
             t == full_url[u, l.href]
             listed == IF l.href # <<>> /\ l.rel \in {"item", "collection"}
                          /\ t \notin Range(st.out)
                       THEN [st EXCEPT !.out = Append(@, t)] ELSE st
             below == IF l.href # <<>> /\ l.rel = "collection"
                      THEN DfsCall(t, listed) ELSE listed
         IN  DfsLoop(u, k + 1, below)
FirstSeenOrder == DfsCall(Root, [seen |-> {}, out |-> <<>>]).out

\* root links [item b.json, collection c.json], c.json without listed links
ExampleGraph ==
    /\ LinksAt(Root) = <<[href |-> <<"b">> \o JsonSuffix, rel |-> "item"],
                         [href |-> <<"c">> \o JsonSuffix, rel |-> "collection"]>>
    /\ Targets(Site \o <<"c">> \o JsonSuffix, {"item", "collection"}) = {}

\* C6: all_links is in first-seen depth-first order: during a run it is a
\* prefix of that order over the documents read, at the end it is that order;
\* for root links [item b, collection c] it ends as [abs(b), abs(c)].
C6_FirstSeenDepthFirstOrder ==
    /\ pc \in {"crawl", "done", "raised"} => IsPrefix(all_links, FirstSeenOrder)
    /\ pc = "done" => all_links = FirstSeenOrder
    /\ (pc = "done" /\ ExampleGraph)
          => all_links = <<Site \o <<"b">> \o JsonSuffix, Site \o <<"c">> \o JsonSuffix>>

\* a finished run whose first root link is a collection that lists a URL of
\* its own, appended before the target of the second root link
C6_Witness ==
    /\ pc = "done"
    /\ Len(all_links) = 3 /\ Len(LinksAt(Root)) = 2
    /\ LinksAt(Root)[1].rel = "collection"
    /\ all_links[1] = urljoin[Root, LinksAt(Root)[1].href]
    /\ all_links[2] \in Targets(all_links[1], {"item", "collection"})
    /\ all_links[3] = urljoin[Root, LinksAt(Root)[2].href]

\* ---------------------------------------------------------------------- C7
FetchedBy(fn) == {gets[k].url : k \in {j \in 1..Len(gets) : gets[j].by = fn}}
CollectionTargets == UNION {Targets(u, {"collection"}) : u \in visited}

\* C7 as stated: the URLs fetched by a run are exactly the root and the
\* targets of the rel=collection links of the visited documents.
C7_OnlyCollectionsFetched ==
    pc = "done" => {gets[k].url : k \in 1..Len(gets)} = {Root} \cup CollectionTargets

\* C7 as amended: the URLs fetched by crawl_stac are exactly the root and the
\* targets of the rel=collection links of the visited documents; a URL
\* reached only through rel=item links is fetched by generate_tiff_url alone.
C7_CrawlFetchesCollectionsOnly ==
    /\ pc \in {"crawl", "done", "raised"}
          => FetchedBy("crawl_stac") \subseteq {Root} \cup CollectionTargets
    /\ pc = "done" => FetchedBy("crawl_stac") = {Root} \cup CollectionTargets

\* a finished run with a URL linked as item only: one GET, by generate_tiff_url
C7_Witness ==
    /\ pc = "done"
    /\ \E t \in Range(all_links) \ {Root} :
        /\ LinksTo(t, {"item"}) >= 1 /\ LinksTo(t, {"collection"}) = 0
        /\ GetsBy("crawl_stac", t) = 0 /\ GetsBy("generate_tiff_url", t) = 1

\* ---------------------------------------------------------------------- C8
\* C8 as stated: no GET of generate_tiff_url precedes a GET of crawl_stac.
C8_DerivationAfterCrawl ==
    \A i, j \in 1..Len(gets) :
        i < j => ~(gets[i].by = "generate_tiff_url" /\ gets[j].by = "crawl_stac")

\* C8 as amended: generate_tiff_url runs inside the crawl, one GET at a time,
\* for the item that was appended to all_links last, before another link is
\* scanned.
C8_DerivationInsideCrawl ==
    [][(Len(gets') > Len(gets) /\ gets'[Len(gets')].by = "generate_tiff_url")
        => /\ pc = "crawl" /\ Top.pc = "derive"
           /\ Len(gets') = Len(gets) + 1
           /\ all_links # <<>> /\ gets'[Len(gets')].url = all_links[Len(all_links)]
           /\ all_links' = all_links]_vars

\* a finished run in which crawl_stac fetched a document after a derivation
C8_Witness ==
    /\ pc = "done"
    /\ \E i, j \in 1..Len(gets) :
        i < j /\ gets[i].by = "generate_tiff_url" /\ gets[j].by = "crawl_stac"

\* ---------------------------------------------------------------------- C9
\* item d has an asset that is not an object
Malformed(d) == \E k \in 1..Len(d.assets) : d.assets[k].info = NotDict

\* the GET of generate_tiff_url for u failed, or the assets of the STAC Item
\* it returned are malformed; the assets of another document are not read
DerivationFailed(u) ==
    \/ server[u].answer.net = "error"
    \/ server[u].answer.status # 200
    \/ server[u].answer.body # "object"
    \/ /\ server[u].item.type = "Feature" /\ server[u].item.stac_version # ""
       /\ Malformed(server[u].item)

\* st.warning was called by generate_tiff_url for u, naming a cause
WarnedFor(u) ==
    \E k \in 1..Len(shown) :
        shown[k].fn = "generate_tiff_url" /\ shown[k].url = u /\ shown[k].cause # ""

\* C9: every failure inside generate_tiff_url yields no derived URL and a
\* warning that names the item URL and the cause.
C9_DerivationFailuresWarned ==
    \A k \in 1..Len(gets) :
        (gets[k].by = "generate_tiff_url" /\ DerivationFailed(gets[k].url))
            => WarnedFor(gets[k].url)

\* --------------------------------------------------------------------- C10
\* C10: without the marker the script shows an error and stops before any
\* GET, with both output sequences empty; nothing else stops the script
\* before its crawl has returned.
C10_OnlyMissingMarkerAborts ==
    /\ (pc # "main" /\ root_url_input # <<>> /\ ~Contains[root_url_input, Marker])
          => /\ pc = "rejected"
             /\ gets = <<>> /\ all_links = <<>> /\ tiff_links = <<>>
             /\ \E k \in 1..Len(shown) : shown[k].level = "error"
    /\ pc \in {"rejected", "raised"} => ~Contains[root_url_input, Marker]

\* --------------------------------------------------------------------- C11
\* the script has called extract_real_stac_url on an input with the marker
Extracted == pc # "main" /\ Contains[root_url_input, Marker]

\* the text after the marker, trimmed, percent-decoded, cut at its first "?"
DecodedRemainder(browser_url) ==
    SplitFirst[unquote[Strip[SplitLast[browser_url, Marker]]], <<"?">>]

\* C11: for an input with the marker the returned URL is the text after the
\* marker, percent-decoded, cut at the first "?", with "https://" put in
\* front exactly when that text starts with neither "http://" nor "https://".
C11_PrefixedUnlessHttp ==
    Extracted
        => real_url = IF HasHttpPrefix(DecodedRemainder(root_url_input))
                      THEN DecodedRemainder(root_url_input)
                      ELSE HttpsPrefix \o DecodedRemainder(root_url_input)

\* --------------------------------------------------------------------- C12
\* C12: the URL returned for an input with the marker has a scheme and a
\* host, and does not hold the marker.
C12_AbsoluteWithoutMarker ==
    Extracted
        => /\ ParseScheme[real_url] # <<>>
           /\ Netloc[real_url] # <<>>
           /\ ~Contains[real_url, Marker]

\* --------------------------------------------------------------------- C13
\* generate_tiff_url has just been called on the item linked from the root
\* and the server answered with a STAC Item
Answered ==
    /\ Len(gets) = 2 /\ gets[2].by = "generate_tiff_url"
    /\ Usable(gets[2].url)
    /\ server[gets[2].url].item.type = "Feature"
    /\ server[gets[2].url].item.stac_version # ""

\* and every asset of the item is an object, so that the assets are inspected
Inspected == Answered /\ ~Malformed(server[gets[2].url].item)

\* the item URL, the item document, and what the call added to tiff_links
InspectedUrl == gets[2].url
InspectedItem == server[gets[2].url].item
Returned == IF tiff_links = <<>> THEN None ELSE tiff_links[Len(tiff_links)]

\* the positions of the raster assets of item d, and of those with a
\* preferred name
RasterIndexes(d) ==
    {k \in 1..Len(d.assets) :
        \E suffix \in {TifSuffix, TiffSuffix} :
            /\ Len(d.assets[k].info.href) >= Len(suffix)
            /\ SubSeq(d.assets[k].info.href,
                      Len(d.assets[k].info.href) - Len(suffix) + 1,
                      Len(d.assets[k].info.href)) = suffix}
PreferredIndexes(d) ==
    {k \in RasterIndexes(d) :
        \E keyword \in Keywords : Contains[LowerStr[d.assets[k].name], keyword]}

\* the absolute form of the href of asset k of item d found at u
AbsoluteHref(u, d, k) == resolve_relative_url(u, d.assets[k].info.href)

\* C13: whatever the order of the assets, when some raster asset has a
\* preferred name the URL returned is that of a raster asset with a preferred
\* name; when none has, it is that of the first raster asset.
C13_PreferredRasterWins ==
    Inspected
        => /\ PreferredIndexes(InspectedItem) # {}
                => Returned \in {AbsoluteHref(InspectedUrl, InspectedItem, k) :
                                    k \in PreferredIndexes(InspectedItem)}
           /\ (PreferredIndexes(InspectedItem) = {} /\ RasterIndexes(InspectedItem) # {})
                => Returned = AbsoluteHref(InspectedUrl, InspectedItem,
                                           SetMin(RasterIndexes(InspectedItem)))

\* an item whose first asset is a raster without a preferred name and whose
\* later asset "RGB" was returned
C13_Witness ==
    /\ Inspected
    /\ 1 \in RasterIndexes(InspectedItem) \ PreferredIndexes(InspectedItem)
    /\ \E k \in PreferredIndexes(InspectedItem) :
        /\ k > 1 /\ InspectedItem.assets[k] = RgbAsset
        /\ Returned = AbsoluteHref(InspectedUrl, InspectedItem, k)

\* --------------------------------------------------------------------- C14
\* C14: when two or more raster assets have a preferred name, the URL
\* returned is that of the first of them in the assets mapping.
C14_FirstPreferredWins ==
    (Inspected /\ Cardinality(PreferredIndexes(InspectedItem)) >= 2)
        => Returned = AbsoluteHref(InspectedUrl, InspectedItem,
                                   SetMin(PreferredIndexes(InspectedItem)))

\* --------------------------------------------------------------------- C15
\* the item inspected has no raster asset
NoRaster == RasterIndexes(InspectedItem) = {}

\* the fixed template filled with four components and an identifier
Template(event, grid, tile, date, id) ==
    TemplateHead \o event \o TemplateArd \o grid \o <<"/">> \o tile \o <<"/">> \o date
    \o <<"/">> \o id \o TemplateTail

\* the date part of the datetime property of item d
PropertyDate(d) ==
    IF Truthy(d.properties.datetime)
    THEN SplitFirst[d.properties.datetime, <<"T">>] ELSE None

\* the values the URL path of u offers for each component
PathParts(u) == Split[UrlPath[u], "/"]
PathEvents(u) ==
    {PathParts(u)[i + 1] : i \in {j \in 1..(Len(PathParts(u)) - 1) :
                                    Contains[PathParts(u)[j], EventsWord]}}
PathGrids(u) == {x \in Range(PathParts(u)) : IsDigit[x] /\ Len(x) = 2}
PathTiles(u) == {x \in Range(PathParts(u)) : IsDigit[x] /\ Len(x) = 12}
PathDates(u) == {x \in Range(PathParts(u)) : MatchesDate[x]}

\* the values a component may have when the properties come first: the
\* property when it supplies one, else a value of the URL path
PropertyFirst(property, path_values) ==
    IF Truthy(property) THEN {property} ELSE path_values

\* C15: in the fallback a component supplied by the properties of the item
\* is the one used: a value found in the URL path does not replace it.
C15_PropertiesBeforePath ==
    (Inspected /\ NoRaster /\ Returned # None)
        => \E e \in PropertyFirst(InspectedItem.properties.event, PathEvents(InspectedUrl)),
              g \in PropertyFirst(InspectedItem.properties.grid, PathGrids(InspectedUrl)),
              t \in PropertyFirst(InspectedItem.properties.tile, PathTiles(InspectedUrl)),
              dt \in PropertyFirst(PropertyDate(InspectedItem), PathDates(InspectedUrl)) :
                StartsWith[Returned, TemplateHead \o e \o TemplateArd \o g \o <<"/">> \o t
                                     \o <<"/">> \o dt \o <<"/">>]

\* --------------------------------------------------------------------- C16
\* an id of 16 or more characters of which one is a letter
PlausibleId(id) ==
    id # None /\ Len(id) >= 16 /\ \E k \in 1..Len(id) : id[k] \in Letters

\* the values a component resolves to as the statement has it: the property
\* when it supplies one, else a value of the URL path; none when unresolved
ResolvedAsStated(property, path_values) ==
    {x \in PropertyFirst(property, path_values) : Truthy(x)}

\* the URLs the statement allows for item d at u: the template filled with
\* resolved components and the identifier; none when a component is unresolved
SynthesizedAsStated(u, d) ==
    {Template(e, g, t, dt, IF PlausibleId(d.id) THEN d.id ELSE DefaultImageId) :
        e \in ResolvedAsStated(d.properties.event, PathEvents(u)),
        g \in ResolvedAsStated(d.properties.grid, PathGrids(u)),
        t \in ResolvedAsStated(d.properties.tile, PathTiles(u)),
        dt \in ResolvedAsStated(PropertyDate(d), PathDates(u))}

\* C16: the fallback runs only when the item has no raster asset, and yields
\* a URL exactly when all four components are resolved: the template filled
\* with them and with the id of the item when it is plausible, else with the
\* fixed identifier; with the properties X, 44, 033313123002,
\* 2025-01-01T00:00:00Z and an id shorter than 16 the URL is
\* .../events/X/ard/44/033313123002/2025-01-01/10400100AFC26500-visual.tif
C16_FallbackWhenResolved ==
    Inspected
        => /\ ~NoRaster
                => Returned \in {AbsoluteHref(InspectedUrl, InspectedItem, k) :
                                    k \in RasterIndexes(InspectedItem)}
           /\ NoRaster
                => IF SynthesizedAsStated(InspectedUrl, InspectedItem) = {}
                   THEN Returned = None
                   ELSE Returned \in SynthesizedAsStated(InspectedUrl, InspectedItem)
           /\ (/\ NoRaster
               /\ InspectedItem.properties = FullProperties
               /\ InspectedItem.id # None /\ Len(InspectedItem.id) < 16)
                => Returned = Template(<<"X">>, <<"4", "4">>, <<"0", "3", "3", "3", "1", "3", "1", "2", "3", "0", "0", "2">>, <<"2", "0", "2", "5", "-", "0", "1", "-", "0", "1">>, DefaultImageId)

\* --------------------------------------------------------------------- C17
\* C17: the visited set only grows, and crawl_stac fetches a URL only when
\* it is in the visited set already: every URL fetched by crawl_stac, with
\* or without success, is in the visited set from before its fetch on.
C17_VisitedBeforeFetch ==
    [][/\ visited \subseteq visited'
       /\ (Len(gets') > Len(gets) /\ gets'[Len(gets')].by = "crawl_stac")
             => gets'[Len(gets')].url \in visited
       /\ \A k \in 1..Len(gets') :
             gets'[k].by = "crawl_stac" => gets'[k].url \in visited']_vars

\* a finished run in which a document that failed to load was linked twice
\* as collection and fetched once
C17_Witness ==
    /\ pc = "done"
    /\ \E u \in visited :
        /\ Asked(u) /\ ~Usable(u)
        /\ LinksTo(u, {"collection"}) >= 2
        /\ GetsBy("crawl_stac", u) = 1

\* --------------------------------------------------------------------- C18
\* C18: crawl_stac calls itself only for a link with rel=collection and a
\* non-empty href, on the URL the href resolves to; all_links changes only
\* by the target of a link with rel=item or rel=collection and a non-empty
\* href being appended.
C18_OnlyCollectionsRecurse ==
    [][/\ (pc = "crawl" /\ Len(stack') > Len(stack))
             => /\ Top.pc = "loop" /\ Top.i <= Len(Top.links)
                /\ Top.links[Top.i].rel = "collection"
                /\ Top.links[Top.i].href # <<>>
                /\ Len(stack') = Len(stack) + 1
                /\ stack'[Len(stack')] = Call(urljoin[Top.url, Top.links[Top.i].href])
       /\ all_links' # all_links
             => /\ pc = "crawl" /\ Top.pc = "loop" /\ Top.i <= Len(Top.links)
                /\ Top.links[Top.i].rel \in {"item", "collection"}
                /\ Top.links[Top.i].href # <<>>
                /\ all_links' = Append(all_links, urljoin[Top.url, Top.links[Top.i].href])]_vars

\* a finished run whose root held a link of another rel and an item link:
\* the item is listed and not crawled, the other target is neither
C18_Witness ==
    /\ pc = "done"
    /\ ChildLink \in Range(LinksAt(Root))
    /\ urljoin[Root, ChildLink.href] \notin Range(all_links) \cup visited
    /\ \E t \in Targets(Root, {"item"}) : t \in Range(all_links) /\ t \notin visited

\* --------------------------------------------------------------------- C19
\* the URLs generate_tiff_url was called on, in the order of the calls
Derivations ==
    LET calls == SelectSeq(gets, LAMBDA g : g.by = "generate_tiff_url")
    IN  [k \in 1..Len(calls) |-> calls[k].url]

\* what generate_tiff_url returned for u, given what the server answered
ResultFor(u) ==
    generate_tiff_url(u, [net |-> server[u].answer.net, status |-> server[u].answer.status,
                          body |-> server[u].answer.body, item |-> server[u].item]).url

\* the results of the calls that returned a URL, in the order of the calls
RECURSIVE ResultsOf(_)
ResultsOf(urls) ==
    IF urls = <<>> THEN <<>>
    ELSE LET tiff_url == ResultFor(Head(urls))
         IN  (IF Truthy(tiff_url) THEN <<tiff_url>> ELSE <<>>) \o ResultsOf(Tail(urls))

\* C19: generate_tiff_url is called at most once per URL, and the URLs it
\* is called on are those first listed through a rel=item link, in the order
\* of all_links (all of them when the run ends normally); tiff_links holds
\* the results of these calls in that order, so it is never longer than the
\* list of items; a URL first listed through a rel=collection link gets no call.
C19_DerivedOncePerItem ==
    pc \in {"crawl", "done", "raised"}
        => /\ \A i, j \in 1..Len(Derivations) : i # j => Derivations[i] # Derivations[j]
           /\ IsPrefix(Derivations, ItemsFound)
           /\ pc = "done" => Derivations = ItemsFound
           /\ tiff_links = ResultsOf(Derivations)
           /\ Len(tiff_links) <= Len(ItemsFound)

\* a finished run with a derived URL in which a URL first listed as
\* collection was later linked as item and got no call
C19_Witness ==
    /\ pc = "done" /\ tiff_links # <<>>
    /\ \E t \in Range(all_links) :
        /\ LinksTo(t, {"item"}) >= 1
        /\ t \notin Range(ItemsFound)
        /\ GetsBy("generate_tiff_url", t) = 0

====
